---- MODULE Spec2Model ----
(***************************************************************************)
(* RedisMemoryTool (src/src/index.ts): a file/directory namespace emulated *)
(* on the flat key space of a Redis server.                                *)
(*                                                                         *)
(* Strings are sequences of one-character strings, so that every string    *)
(* operation of the source (startsWith, replace, split, slice, join,       *)
(* padStart, the glob match of KEYS) is computed character by character.   *)
(***************************************************************************)
EXTENDS Integers, Sequences, FiniteSets, TLC

VARIABLES
    redis,   \* the server's key space: key -> [value, ttl]
    call,    \* the local state of the rename call in progress, if any
    lastOp,  \* the last command issued, with its arguments and its result
    prev,    \* history: the key space when the last command was issued
    calls,   \* the local state of the calls that run concurrently, one per caller
    store    \* the fields of the RedisMemoryStore instance, with its connection

vars == <<redis, call, lastOp, prev, calls, store>>

----------------------------------------------------------------------------
(* Bounds of the model *)

\* longest file content drawn for the content-editing specification
MaxContentLen == 3
\* longest old_str / new_str / insert_text / file_text drawn for it
MaxArgLen == 2
\* most keys the namespace specification lets the store hold
MaxFiles == 2
\* most keys of a store drawn for the rename specification
MaxStoreKeys == 3
\* longest key a rename may produce (renames can nest a subtree in itself)
MaxKeyLen == 22
\* the ttl, in seconds, of the instance of the expiry specification
TtlSeconds == 2

----------------------------------------------------------------------------
(* Strings *)

\* all sequences over the alphabet A of length at most n
RECURSIVE Strs(_, _)
Strs(A, n) ==
    IF n = 0 THEN {<<>>}
    ELSE LET shorter == Strs(A, n - 1)
         IN  shorter \cup {Append(s, c) : s \in {t \in shorter : Len(t) = n - 1}, c \in A}

\* String.prototype.startsWith
startsWith(s, p) == Len(s) >= Len(p) /\ SubSeq(s, 1, Len(p)) = p

\* String.prototype.slice(n) for 0 <= n
sliceFrom(s, n) == SubSeq(s, n + 1, Len(s))

\* U+0060, which a TLA+ string literal cannot hold
Backtick == "BACKTICK"

\* UTF-16 code units of the characters the model draws (the order used by
\* Array.prototype.sort without a comparator)
CharCode(c) ==
    CASE c = "\n" -> 10
      [] c = " "  -> 32
      [] c = "$"  -> 36
      [] c = "&"  -> 38
      [] c = "'"  -> 39
      [] c = "*"  -> 42
      [] c = "-"  -> 45
      [] c = "/"  -> 47
      [] c = "0"  -> 48
      [] c = "1"  -> 49
      [] c = "2"  -> 50
      [] c = "3"  -> 51
      [] c = "4"  -> 52
      [] c = "5"  -> 53
      [] c = "6"  -> 54
      [] c = "7"  -> 55
      [] c = "8"  -> 56
      [] c = "9"  -> 57
      [] c = ":"  -> 58
      [] c = "?"  -> 63
      [] c = "\\" -> 92
      [] c = Backtick -> 96
      [] c = "a"  -> 97
      [] c = "b"  -> 98
      [] c = "x"  -> 120
      [] c = "y"  -> 121
      [] OTHER    -> 122

\* s < t in code-unit order
RECURSIVE StrLess(_, _)
StrLess(s, t) ==
    IF t = <<>> THEN FALSE
    ELSE IF s = <<>> THEN TRUE
    ELSE IF Head(s) = Head(t) THEN StrLess(Tail(s), Tail(t))
    ELSE CharCode(Head(s)) < CharCode(Head(t))

\* Array.from(set).sort()
RECURSIVE SortSet(_)
SortSet(S) ==
    IF S = {} THEN <<>>
    ELSE LET m == CHOOSE x \in S : \A y \in S \ {x} : StrLess(x, y)
         IN  <<m>> \o SortSet(S \ {m})

\* String.prototype.split(sep) for a one-character separator
RECURSIVE SplitAcc(_, _, _)
SplitAcc(s, sep, cur) ==
    IF s = <<>> THEN <<cur>>
    ELSE IF Head(s) = sep THEN <<cur>> \o SplitAcc(Tail(s), sep, <<>>)
    ELSE SplitAcc(Tail(s), sep, Append(cur, Head(s)))

SplitChar(s, sep) == SplitAcc(s, sep, <<>>)

\* Array.prototype.join(sep)
RECURSIVE Join(_, _)
Join(parts, sep) ==
    IF parts = <<>> THEN <<>>
    ELSE IF Len(parts) = 1 THEN parts[1]
    ELSE parts[1] \o sep \o Join(Tail(parts), sep)

\* first index (0-based) at which needle occurs in s at or after from, or -1
RECURSIVE IndexOfFrom(_, _, _)
IndexOfFrom(s, needle, from) ==
    IF from + Len(needle) > Len(s) THEN -1
    ELSE IF SubSeq(s, from + 1, from + Len(needle)) = needle THEN from
    ELSE IndexOfFrom(s, needle, from + 1)

\* String.prototype.split(sep).length for a string separator: an empty
\* separator splits into the code units (none for the empty string); any
\* other separator is searched left to right, matches not overlapping
RECURSIVE SplitCountFrom(_, _, _)
SplitCountFrom(s, sep, from) ==
    LET i == IndexOfFrom(s, sep, from)
    IN  IF i = -1 THEN 1 ELSE 1 + SplitCountFrom(s, sep, i + Len(sep))

SplitLength(s, sep) ==
    IF sep = <<>> THEN Len(s) ELSE SplitCountFrom(s, sep, 0)

\* String(n) for an integer n >= 0
Digit(d) ==
    CASE d = 0 -> "0" [] d = 1 -> "1" [] d = 2 -> "2" [] d = 3 -> "3"
      [] d = 4 -> "4" [] d = 5 -> "5" [] d = 6 -> "6" [] d = 7 -> "7"
      [] d = 8 -> "8" [] OTHER -> "9"

RECURSIVE IntToStr(_)
IntToStr(n) ==
    IF n < 10 THEN <<Digit(n)>> ELSE Append(IntToStr(n \div 10), Digit(n % 10))

\* String.prototype.padStart(width, " ")
RECURSIVE padStart(_, _)
padStart(s, width) ==
    IF Len(s) >= width THEN s ELSE padStart(<<" ">> \o s, width)

\* GetSubstitution of String.prototype.replace(searchString, replaceValue)
\* for a string pattern (no capture groups): $$ is "$", $& the matched text,
\* $` the text before the match, $' the text after it; every other "$" is
\* literal
RECURSIVE GetSubstitution(_, _, _, _)
GetSubstitution(repl, matched, before, after) ==
    IF repl = <<>> THEN <<>>
    ELSE IF Head(repl) = "$" /\ Len(repl) >= 2
    THEN LET c    == repl[2]
             rest == GetSubstitution(sliceFrom(repl, 2), matched, before, after)
         IN  CASE c = "$"      -> <<"$">> \o rest
               [] c = "&"      -> matched \o rest
               [] c = Backtick -> before \o rest
               [] c = "'"      -> after \o rest
               [] OTHER        -> <<"$">> \o GetSubstitution(Tail(repl), matched, before, after)
    ELSE <<Head(repl)>> \o GetSubstitution(Tail(repl), matched, before, after)

\* String.prototype.replace(searchString, replaceValue), both strings: the
\* first occurrence only (an empty searchString occurs at index 0)
replace(s, searchString, replaceValue) ==
    LET pos == IndexOfFrom(s, searchString, 0)
    IN  IF pos = -1 THEN s
        ELSE LET before == SubSeq(s, 1, pos)
                 after  == sliceFrom(s, pos + Len(searchString))
             IN  before \o GetSubstitution(replaceValue, searchString, before, after) \o after

\* Array.prototype.slice(start, end): negative indices count from the end
sliceIndex(i, len) ==
    IF i < 0 THEN (IF len + i < 0 THEN 0 ELSE len + i)
    ELSE IF i > len THEN len ELSE i

slice(arr, start, end) ==
    LET from == sliceIndex(start, Len(arr))
        to   == sliceIndex(end, Len(arr))
    IN  IF from >= to THEN <<>> ELSE SubSeq(arr, from + 1, to)

\* Array.prototype.splice(index, 0, item) for 0 <= index <= arr.length
splice(arr, index, item) ==
    SubSeq(arr, 1, index) \o <<item>> \o SubSeq(arr, index + 1, Len(arr))

----------------------------------------------------------------------------
(* Path codec *)

Root == <<"/", "m", "e", "m", "o", "r", "i", "e", "s">>

DefaultKeyPrefix == <<"m", "e", "m", "o", "r", "y">>

\* the constructor: config.keyPrefix ?? "memory", suffixed with ":" and
\* config.agentContext when that is a non-empty string; ttl 0 stands for an
\* absent (or zero) ttl, both falsy
constructor(config) ==
    LET base == IF config.hasKeyPrefix THEN config.keyPrefix ELSE DefaultKeyPrefix
    IN  [keyPrefix |-> IF config.agentContext # <<>>
                       THEN base \o <<":">> \o config.agentContext
                       ELSE base,
         ttl       |-> config.ttl]

\* memoryPath.startsWith("/memories")
ValidPath(memoryPath) == startsWith(memoryPath, Root)

\* replace(/\/+/g, "/")
RECURSIVE CollapseSlashes(_)
CollapseSlashes(s) ==
    IF s = <<>> THEN <<>>
    ELSE IF Head(s) = "/" /\ Len(s) >= 2 /\ s[2] = "/" THEN CollapseSlashes(Tail(s))
    ELSE <<Head(s)>> \o CollapseSlashes(Tail(s))

\* replace(/\/$/, "")
StripTrailingSlash(s) ==
    IF s # <<>> /\ s[Len(s)] = "/" THEN SubSeq(s, 1, Len(s) - 1) ELSE s

Normalize(memoryPath) == StripTrailingSlash(CollapseSlashes(memoryPath))

\* pathToKey, for a path that passed the startsWith check
pathToKey(self, memoryPath) == self.keyPrefix \o <<":">> \o Normalize(memoryPath)

keyToPath(self, key) == sliceFrom(key, Len(self.keyPrefix) + 1)

----------------------------------------------------------------------------
(* The Redis server, as the ioredis calls of the source see it *)

NoExpiry == -1

\* the glob match of KEYS (stringmatchlen of the server): "*" matches any
\* run of characters, "?" any one character, "\" takes the next pattern
\* character literally; character classes are not drawn ("[" is outside
\* the alphabets of the model)
RECURSIVE GlobMatch(_, _)
GlobMatch(pattern, str) ==
    IF pattern = <<>> THEN str = <<>>
    ELSE IF Head(pattern) = "*"
    THEN \/ Tail(pattern) = <<>>
         \/ \E i \in 0..Len(str) : GlobMatch(Tail(pattern), sliceFrom(str, i))
    ELSE IF str = <<>> THEN FALSE
    ELSE IF Head(pattern) = "?" THEN GlobMatch(Tail(pattern), Tail(str))
    ELSE IF Head(pattern) = "\\" /\ Len(pattern) >= 2
    THEN pattern[2] = Head(str) /\ GlobMatch(sliceFrom(pattern, 2), Tail(str))
    ELSE Head(pattern) = Head(str) /\ GlobMatch(Tail(pattern), Tail(str))

\* redis.get(key): the value, or null
Null == [isNull |-> TRUE, value |-> <<>>]
Some(v) == [isNull |-> FALSE, value |-> v]
get(db, key) == IF key \in DOMAIN db THEN Some(db[key].value) ELSE Null

\* redis.exists(key) as a boolean (the count 1 or 0 of the reply)
exists(db, key) == key \in DOMAIN db

\* redis.keys(pattern): the matching keys, in no particular order
keys(db, pattern) == {k \in DOMAIN db : GlobMatch(pattern, k)}

\* redis.set(key, value): SET drops any expiry the key had
set(db, key, value) ==
    [k \in DOMAIN db \cup {key} |->
        IF k = key THEN [value |-> value, ttl |-> NoExpiry] ELSE db[k]]

\* redis.setex(key, seconds, value)
setex(db, key, seconds, value) ==
    [k \in DOMAIN db \cup {key} |->
        IF k = key THEN [value |-> value, ttl |-> seconds] ELSE db[k]]

\* redis.expire(key, seconds): no effect on a missing key
expire(db, key, seconds) ==
    [k \in DOMAIN db |->
        IF k = key THEN [value |-> db[k].value, ttl |-> seconds] ELSE db[k]]

\* redis.del(...keys)
del(db, ks) == [k \in DOMAIN db \ ks |-> db[k]]

\* setWithTtl without its setex branch
setWithTtl_plain(self, db, key, value) == set(db, key, value)

\* setWithTtl
setWithTtl(self, db, key, value) ==
    IF self.ttl # 0 THEN setex(db, key, self.ttl, value) ELSE set(db, key, value)

\* refreshTtl without its expire call
refreshTtl_none(self, db, key) == db

\* refreshTtl
refreshTtl(self, db, key) ==
    IF self.ttl # 0 THEN expire(db, key, self.ttl) ELSE db

\* isFile, for a path that passes the startsWith check
isFile(self, db, memoryPath) == exists(db, pathToKey(self, memoryPath))

----------------------------------------------------------------------------
(* Commands and their results *)

NoOut == [kind |-> "none", text |-> <<>>]

\* a command as issued, with the instance it was issued through and the
\* result it returned; status "ok" stands for the confirmation message, any
\* other status for the Error thrown
Op(self, op, path, path2, text, text2, num, range, status, out) ==
    [self |-> self, op |-> op, path |-> path, path2 |-> path2, text |-> text, text2 |-> text2,
     num |-> num, range |-> range, status |-> status, out |-> out]

NoOp == Op([keyPrefix |-> <<>>, ttl |-> 0], "none", <<>>, <<>>, <<>>, <<>>, 0, <<>>, "ok", NoOut)

\* no rename in progress
Idle ==
    [pc |-> "idle", oldKey |-> <<>>, newKey |-> <<>>, content |-> <<>>,
     remaining |-> {}, cur |-> <<>>]

DirectoryHeader(memoryPath) ==
    <<"D", "i", "r", "e", "c", "t", "o", "r", "y", ":", " ">> \o memoryPath \o <<"\n">>

EmptyMark == <<"(", "e", "m", "p", "t", "y", ")">>

\* the body of the two loops of view that extract the unique direct
\* children: the first segment of every scanned key under the prefix, with
\* "/" appended unless a key exists at the child's own path
Children(self, db, scanned, dirPrefix, memoryPath) ==
    LET firstSegment(k) == SplitChar(sliceFrom(k, Len(dirPrefix)), "/")[1]
        under == {k \in scanned : startsWith(k, dirPrefix) /\ firstSegment(k) # <<>>}
    IN  {IF isFile(self, db, memoryPath \o <<"/">> \o firstSegment(k))
         THEN firstSegment(k)
         ELSE firstSegment(k) \o <<"/">> : k \in under}

\* items.map((item) => `- ${item}`).join("\n")
RECURSIVE Bullets(_)
Bullets(items) ==
    IF items = <<>> THEN <<>>
    ELSE <<<<"-", " ">> \o Head(items)>> \o Bullets(Tail(items))

Listing(memoryPath, children) ==
    DirectoryHeader(memoryPath) \o Join(Bullets(SortSet(children)), <<"\n">>)

\* displayLines.map((line, i) => `${String(i + startNum).padStart(4, " ")}: ${line}`)
RECURSIVE NumberedLines(_, _)
NumberedLines(displayLines, startNum) ==
    IF displayLines = <<>> THEN <<>>
    ELSE <<padStart(IntToStr(startNum), 4) \o <<":", " ">> \o Head(displayLines)>>
         \o NumberedLines(Tail(displayLines), startNum + 1)

\* the file branch of view: the numbered lines of content, all of them or
\* those of view_range (<<>> when the command carries no range of length 2)
FileView(content, view_range) ==
    LET lines == SplitChar(content, "\n")
    IN  IF view_range = <<>> THEN Join(NumberedLines(lines, 1), <<"\n">>)
        ELSE LET rangeStart == view_range[1]
                 rangeEnd   == view_range[2]
                 startLine  == (IF rangeStart > 1 THEN rangeStart ELSE 1) - 1
                 endLine    == IF rangeEnd = -1 THEN Len(lines) ELSE rangeEnd
             IN  Join(NumberedLines(slice(lines, startLine, endLine), startLine + 1),
                      <<"\n">>)

\* view: [status, out, db] for the command on the key space db
view(self, db, memoryPath, view_range) ==
    IF memoryPath = Root
    THEN LET scanned == keys(db, self.keyPrefix \o <<":">> \o Root \o <<"/", "*">>)
         IN  IF scanned = {}
             THEN [status |-> "ok", db |-> db,
                   out |-> [kind |-> "dir", text |-> DirectoryHeader(Root) \o EmptyMark]]
             ELSE [status |-> "ok", db |-> db,
                   out |-> [kind |-> "dir",
                            text |-> Listing(Root,
                                Children(self, db, scanned,
                                    self.keyPrefix \o <<":">> \o Root \o <<"/">>, Root))]]
    ELSE IF ~ValidPath(memoryPath)
    THEN [status |-> "InvalidPath", db |-> db, out |-> NoOut]
    ELSE LET key     == pathToKey(self, memoryPath)
             content == get(db, key)
             scanned == keys(db, key \o <<"/", "*">>)
         IN  IF ~content.isNull
             THEN [status |-> "ok", db |-> refreshTtl(self, db, key),
                   out |-> [kind |-> "file", text |-> FileView(content.value, view_range)]]
             ELSE IF scanned = {}
             THEN [status |-> "NotFound", db |-> db, out |-> NoOut]
             ELSE [status |-> "ok", db |-> db,
                   out |-> [kind |-> "dir",
                            text |-> Listing(memoryPath,
                                Children(self, db, scanned, key \o <<"/">>, memoryPath))]]

\* create without its existence check
create_overwriting(self, db, memoryPath, file_text) ==
    IF ~ValidPath(memoryPath) THEN [status |-> "InvalidPath", db |-> db]
    ELSE [status |-> "ok",
          db |-> setWithTtl(self, db, pathToKey(self, memoryPath), file_text)]

\* create: [status, db]
create(self, db, memoryPath, file_text) ==
    IF ~ValidPath(memoryPath) THEN [status |-> "InvalidPath", db |-> db]
    ELSE LET key == pathToKey(self, memoryPath)
         IN  IF exists(db, key) THEN [status |-> "AlreadyExists", db |-> db]
             ELSE [status |-> "ok", db |-> setWithTtl(self, db, key, file_text)]

\* str_replace: [status, db]
str_replace(self, db, memoryPath, old_str, new_str) ==
    IF ~ValidPath(memoryPath) THEN [status |-> "InvalidPath", db |-> db]
    ELSE LET key     == pathToKey(self, memoryPath)
             content == get(db, key)
             count   == SplitLength(content.value, old_str) - 1
         IN  IF content.isNull THEN [status |-> "NotFound", db |-> db]
             ELSE IF count = 0 THEN [status |-> "NoMatch", db |-> db]
             ELSE IF count > 1 THEN [status |-> "Ambiguous", db |-> db]
             ELSE [status |-> "ok",
                   db |-> setWithTtl(self, db, key, replace(content.value, old_str, new_str))]

\* insert_text.replace(/\n$/, "")
StripTrailingNewline(s) ==
    IF s # <<>> /\ s[Len(s)] = "\n" THEN SubSeq(s, 1, Len(s) - 1) ELSE s

\* insert refusing the append position
insert_no_append(self, db, memoryPath, insert_line, insert_text) ==
    IF ~ValidPath(memoryPath) THEN [status |-> "InvalidPath", db |-> db]
    ELSE LET key     == pathToKey(self, memoryPath)
             content == get(db, key)
             lines   == SplitChar(content.value, "\n")
         IN  IF content.isNull THEN [status |-> "NotFound", db |-> db]
             ELSE IF insert_line < 0 \/ insert_line >= Len(lines)
             THEN [status |-> "InvalidRange", db |-> db]
             ELSE [status |-> "ok",
                   db |-> setWithTtl(self, db, key,
                       Join(splice(lines, insert_line, StripTrailingNewline(insert_text)),
                            <<"\n">>))]

\* insert that keeps the trailing newline of insert_text
insert_unstripped(self, db, memoryPath, insert_line, insert_text) ==
    IF ~ValidPath(memoryPath) THEN [status |-> "InvalidPath", db |-> db]
    ELSE LET key     == pathToKey(self, memoryPath)
             content == get(db, key)
             lines   == SplitChar(content.value, "\n")
         IN  IF content.isNull THEN [status |-> "NotFound", db |-> db]
             ELSE IF insert_line < 0 \/ insert_line > Len(lines)
             THEN [status |-> "InvalidRange", db |-> db]
             ELSE [status |-> "ok",
                   db |-> setWithTtl(self, db, key,
                       Join(splice(lines, insert_line, insert_text), <<"\n">>))]

\* insert: [status, db]
insert(self, db, memoryPath, insert_line, insert_text) ==
    IF ~ValidPath(memoryPath) THEN [status |-> "InvalidPath", db |-> db]
    ELSE LET key     == pathToKey(self, memoryPath)
             content == get(db, key)
             lines   == SplitChar(content.value, "\n")
         IN  IF content.isNull THEN [status |-> "NotFound", db |-> db]
             ELSE IF insert_line < 0 \/ insert_line > Len(lines)
             THEN [status |-> "InvalidRange", db |-> db]
             ELSE [status |-> "ok",
                   db |-> setWithTtl(self, db, key,
                       Join(splice(lines, insert_line, StripTrailingNewline(insert_text)),
                            <<"\n">>))]

\* delete with its two branches in the other order
delete_scan_first(self, db, memoryPath) ==
    IF memoryPath = Root THEN [status |-> "Protected", db |-> db]
    ELSE IF ~ValidPath(memoryPath) THEN [status |-> "InvalidPath", db |-> db]
    ELSE LET key     == pathToKey(self, memoryPath)
             scanned == keys(db, key \o <<"/", "*">>)
         IN  IF scanned # {} THEN [status |-> "ok", db |-> del(db, scanned)]
             ELSE IF exists(db, key) THEN [status |-> "ok", db |-> del(db, {key})]
             ELSE [status |-> "NotFound", db |-> db]

\* delete: [status, db]
delete(self, db, memoryPath) ==
    IF memoryPath = Root THEN [status |-> "Protected", db |-> db]
    ELSE IF ~ValidPath(memoryPath) THEN [status |-> "InvalidPath", db |-> db]
    ELSE LET key     == pathToKey(self, memoryPath)
             scanned == keys(db, key \o <<"/", "*">>)
         IN  IF exists(db, key) THEN [status |-> "ok", db |-> del(db, {key})]
             ELSE IF scanned = {} THEN [status |-> "NotFound", db |-> db]
             ELSE [status |-> "ok", db |-> del(db, scanned)]

\* rename, up to its first write: the two pathToKey calls, the read of the
\* source, the destination check of a file move, the scan and the pre-flight
\* loop of a subtree move. [status, call]: a status other than "running"
\* is the Error thrown; "running" enters the moving part with call
destKey(oldKey, newKey, key) == newKey \o sliceFrom(key, Len(oldKey))

renameStart(self, db, oldPath, newPath) ==
    IF ~ValidPath(oldPath) \/ ~ValidPath(newPath)
    THEN [status |-> "InvalidPath", call |-> Idle]
    ELSE LET oldKey  == pathToKey(self, oldPath)
             newKey  == pathToKey(self, newPath)
             content == get(db, oldKey)
             scanned == keys(db, oldKey \o <<"/", "*">>)
         IN  IF ~content.isNull
             THEN IF exists(db, newKey)
                  THEN [status |-> "Conflict", call |-> Idle]
                  ELSE [status |-> "running",
                        call |-> [pc |-> "fileSet", oldKey |-> oldKey, newKey |-> newKey,
                                  content |-> content.value, remaining |-> {},
                                  cur |-> <<>>]]
             ELSE IF scanned = {}
             THEN [status |-> "NotFound", call |-> Idle]
             ELSE IF \E k \in scanned : exists(db, destKey(oldKey, newKey, k))
             THEN [status |-> "Conflict", call |-> Idle]
             ELSE [status |-> "running",
                   call |-> [pc |-> "move", oldKey |-> oldKey, newKey |-> newKey,
                             content |-> <<>>, remaining |-> scanned, cur |-> <<>>]]

\* clearAll: [status, db]; every key the pattern of the instance matches
\* is removed in one del
clearAll(self, db) ==
    LET scanned == keys(db, self.keyPrefix \o <<":">> \o Root \o <<"/", "*">>)
    IN  [status |-> "ok", db |-> IF scanned # {} THEN del(db, scanned) ELSE db]

\* getAllPaths: the paths of the keys the pattern of the instance matches,
\* sorted
getAllPaths(self, db) ==
    LET scanned == keys(db, self.keyPrefix \o <<":">> \o Root \o <<"/", "*">>)
    IN  [status |-> "ok", db |-> db,
         out |-> [kind |-> "paths",
                  text |-> SortSet({keyToPath(self, k) : k \in scanned})]]

----------------------------------------------------------------------------
(* Actions: one per command; rename is one action per store write, so that
   the states between its writes are states of the model *)

View(self, memoryPath, view_range) ==
    /\ call.pc = "idle"
    /\ \E r \in {view(self, redis, memoryPath, view_range)} :
           /\ redis' = r.db
           /\ lastOp' = Op(self, "view", memoryPath, <<>>, <<>>, <<>>, 0, view_range,
                           r.status, r.out)
    /\ prev' = redis
    /\ UNCHANGED call
    /\ UNCHANGED <<calls, store>>

Create(self, memoryPath, file_text) ==
    /\ call.pc = "idle"
    /\ \E r \in {create(self, redis, memoryPath, file_text)} :
           /\ redis' = r.db
           /\ lastOp' = Op(self, "create", memoryPath, <<>>, file_text, <<>>, 0, <<>>,
                           r.status, NoOut)
    /\ prev' = redis
    /\ UNCHANGED call
    /\ UNCHANGED <<calls, store>>

StrReplace(self, memoryPath, old_str, new_str) ==
    /\ call.pc = "idle"
    /\ \E r \in {str_replace(self, redis, memoryPath, old_str, new_str)} :
           /\ redis' = r.db
           /\ lastOp' = Op(self, "str_replace", memoryPath, <<>>, old_str, new_str, 0, <<>>,
                           r.status, NoOut)
    /\ prev' = redis
    /\ UNCHANGED call
    /\ UNCHANGED <<calls, store>>

Insert(self, memoryPath, insert_line, insert_text) ==
    /\ call.pc = "idle"
    /\ \E r \in {insert(self, redis, memoryPath, insert_line, insert_text)} :
           /\ redis' = r.db
           /\ lastOp' = Op(self, "insert", memoryPath, <<>>, insert_text, <<>>, insert_line,
                           <<>>, r.status, NoOut)
    /\ prev' = redis
    /\ UNCHANGED call
    /\ UNCHANGED <<calls, store>>

Delete(self, memoryPath) ==
    /\ call.pc = "idle"
    /\ \E r \in {delete(self, redis, memoryPath)} :
           /\ redis' = r.db
           /\ lastOp' = Op(self, "delete", memoryPath, <<>>, <<>>, <<>>, 0, <<>>,
                           r.status, NoOut)
    /\ prev' = redis
    /\ UNCHANGED call
    /\ UNCHANGED <<calls, store>>

\* rename is called: it throws, or it passed its checks and starts to move
RenameStart(self, oldPath, newPath) ==
    /\ call.pc = "idle"
    /\ \E r \in {renameStart(self, redis, oldPath, newPath)} :
           /\ r.status = "running" =>
                \A k \in r.call.remaining :
                    Len(destKey(r.call.oldKey, r.call.newKey, k)) <= MaxKeyLen
           /\ call' = r.call
           /\ lastOp' = Op(self, "rename", oldPath, newPath, <<>>, <<>>, 0, <<>>,
                           r.status, NoOut)
    /\ prev' = redis
    /\ UNCHANGED redis
    /\ UNCHANGED <<calls, store>>

\* file move: await this.setWithTtl(newKey, content)
RenameFileSet(self) ==
    /\ call.pc = "fileSet"
    /\ redis' = setWithTtl(self, redis, call.newKey, call.content)
    /\ call' = [call EXCEPT !.pc = "fileDel"]
    /\ UNCHANGED <<lastOp, prev>>
    /\ UNCHANGED <<calls, store>>

\* file move: await this.redis.del(oldKey), and the return
RenameFileDel ==
    /\ call.pc = "fileDel"
    /\ redis' = del(redis, {call.oldKey})
    /\ call' = Idle
    /\ lastOp' = [lastOp EXCEPT !.status = "ok"]
    /\ UNCHANGED prev
    /\ UNCHANGED <<calls, store>>

\* subtree move, one turn of the loop up to its write: the key is read and,
\* when it still holds a value, copied to its destination; the keys come in
\* the order of the KEYS reply, which is any order
RenameMoveSet(self) ==
    /\ call.pc = "move"
    /\ \E key \in call.remaining :
         LET fileContent == get(redis, key)
             rest        == call.remaining \ {key}
         IN  IF fileContent.isNull
             THEN /\ UNCHANGED redis
                  /\ call' = IF rest = {} THEN Idle ELSE [call EXCEPT !.remaining = rest]
                  /\ lastOp' = IF rest = {} THEN [lastOp EXCEPT !.status = "ok"] ELSE lastOp
             ELSE /\ redis' = setWithTtl(self, redis,
                                  destKey(call.oldKey, call.newKey, key), fileContent.value)
                  /\ call' = [call EXCEPT !.pc = "moveDel", !.cur = key]
                  /\ UNCHANGED lastOp
    /\ UNCHANGED prev
    /\ UNCHANGED <<calls, store>>

\* subtree move: await this.redis.del(key), then the next turn or the return
RenameMoveDel ==
    /\ call.pc = "moveDel"
    /\ redis' = del(redis, {call.cur})
    /\ LET rest == call.remaining \ {call.cur}
       IN  /\ call' = IF rest = {} THEN Idle
                      ELSE [call EXCEPT !.pc = "move", !.remaining = rest, !.cur = <<>>]
           /\ lastOp' = IF rest = {} THEN [lastOp EXCEPT !.status = "ok"] ELSE lastOp
    /\ UNCHANGED prev
    /\ UNCHANGED <<calls, store>>

\* the process dies, or a store call rejects, between two writes of rename
Crash ==
    /\ call.pc # "idle"
    /\ call' = Idle
    /\ lastOp' = [lastOp EXCEPT !.status = "crashed"]
    /\ UNCHANGED <<redis, prev>>
    /\ UNCHANGED <<calls, store>>

ClearAll(self) ==
    /\ call.pc = "idle"
    /\ \E r \in {clearAll(self, redis)} :
           /\ redis' = r.db
           /\ lastOp' = Op(self, "clearAll", <<>>, <<>>, <<>>, <<>>, 0, <<>>,
                           r.status, NoOut)
    /\ prev' = redis
    /\ UNCHANGED call
    /\ UNCHANGED <<calls, store>>

GetAllPaths(self) ==
    /\ call.pc = "idle"
    /\ \E r \in {getAllPaths(self, redis)} :
           /\ redis' = r.db
           /\ lastOp' = Op(self, "getAllPaths", <<>>, <<>>, <<>>, <<>>, 0, <<>>,
                           r.status, r.out)
    /\ prev' = redis
    /\ UNCHANGED call
    /\ UNCHANGED <<calls, store>>

----------------------------------------------------------------------------
(* Inputs *)

DefaultConfig == [hasKeyPrefix |-> FALSE, keyPrefix |-> <<>>, agentContext |-> <<>>, ttl |-> 0]

Tool == constructor(DefaultConfig)

pA   == Root \o <<"/", "a">>
pAX  == Root \o <<"/", "a", "/", "x">>
pAY  == Root \o <<"/", "a", "/", "y">>
pB   == Root \o <<"/", "b">>
pBX  == Root \o <<"/", "b", "/", "x">>
\* a segment that is a glob pattern
pG   == Root \o <<"/", "*">>
\* a directory whose name ends in the escape character of glob patterns
pE   == Root \o <<"/", "a", "\\">>
pEX  == Root \o <<"/", "a", "\\", "/", "x">>
pGX  == Root \o <<"/", "*", "/", "x">>
\* another spelling of pA
pAs  == Root \o <<"/", "a", "/">>
\* a path outside the root
pOut == <<"/", "x">>

Texts == {<<"a">>, <<"b">>}

\* every key space of at most n keys among keySet, holding values of values:
\* each is reached from the empty store by one create per key
Stores(keySet, values, n) ==
    UNION {[K -> [value : values, ttl : {NoExpiry}]] :
              K \in {S \in SUBSET keySet : Cardinality(S) <= n}}

ContentBound(db) == \A k \in DOMAIN db : Len(db[k].value) <= MaxContentLen

----------------------------------------------------------------------------
(* The namespace specification: sequences of commands from the empty store *)

Init ==
    /\ redis = <<>>
    /\ call = Idle
    /\ lastOp = NoOp
    /\ prev = <<>>
    /\ calls = <<>>
    /\ store = <<>>

Next ==
    \/ \E p \in {Root, pA, pAX, pOut}, t \in Texts :
          Create(Tool, p, t) /\ Cardinality(DOMAIN redis') <= MaxFiles
    \/ \E p \in {Root, pA, pAX, pOut} : View(Tool, p, <<>>)
    \/ \E p \in {Root, pA, pAX, pOut} : Delete(Tool, p)
    \/ \E p \in {pA, pAX} : StrReplace(Tool, p, <<"a">>, <<"b">>)
    \/ \E p \in {pA, pAX} : Insert(Tool, p, 0, <<"b">>) /\ ContentBound(redis')
    \/ \E o \in {pA, pAX}, n \in {pA, pB} :
          RenameStart(Tool, o, n) /\ Cardinality(DOMAIN redis) <= MaxFiles
    \/ RenameFileSet(Tool)
    \/ RenameFileDel
    \/ RenameMoveSet(Tool)
    \/ RenameMoveDel
    \/ Crash

Spec == Init /\ [][Next]_vars

----------------------------------------------------------------------------
(* The rename specification: one rename call, write by write, on every
   store of a small tree *)

RenameKeys == {pathToKey(Tool, p) : p \in {pA, pAX, pAY, pB, pBX, pEX, pGX}}

InitRename ==
    /\ redis \in Stores(RenameKeys, Texts, MaxStoreKeys)
    /\ call = Idle
    /\ lastOp = NoOp
    /\ prev = redis
    /\ calls = <<>>
    /\ store = <<>>

NextRename ==
    \/ /\ lastOp.op = "none"
       /\ \E o \in {pA, pAX, pB, pG, pE, pOut}, n \in {pA, pAX, pB, pAs} :
             RenameStart(Tool, o, n)
    \/ RenameFileSet(Tool)
    \/ RenameFileDel
    \/ RenameMoveSet(Tool)
    \/ RenameMoveDel
    \/ Crash

SpecRename == InitRename /\ [][NextRename]_vars

----------------------------------------------------------------------------
(* The editing specification: one command on one file, for every content *)

pF == Root \o <<"/", "f">>

ContentAlphabet == {"a", "b", "\n"}
NewStrAlphabet  == {"a", "$", "&"}
TextAlphabet    == {"a", "\n"}

InitEdit ==
    /\ redis \in Stores({pathToKey(Tool, pF)}, Strs(ContentAlphabet, MaxContentLen), 1)
    /\ call = Idle
    /\ lastOp = NoOp
    /\ prev = redis
    /\ calls = <<>>
    /\ store = <<>>

NextEdit ==
    \/ /\ lastOp.op = "none"
       /\ \E p \in {pF, Root}, t \in Strs(TextAlphabet, MaxArgLen) : Create(Tool, p, t)
    \/ /\ lastOp.op = "none"
       /\ \E o \in Strs(ContentAlphabet, MaxArgLen), n \in Strs(NewStrAlphabet, MaxArgLen) :
             StrReplace(Tool, pF, o, n)
    \/ /\ lastOp.op = "none"
       /\ \E i \in -1..(MaxContentLen + 2), t \in Strs(TextAlphabet, MaxArgLen) :
             Insert(Tool, pF, i, t)
    \/ /\ lastOp.op = "none"
       /\ \E r \in {<<>>} \cup ((-1..2) \X (-2..(MaxContentLen + 1))) : View(Tool, pF, r)

SpecEdit == InitEdit /\ [][NextEdit]_vars
----------------------------------------------------------------------------
(* The store specification: one command on every store of a small tree,
   with the spellings of the root and the paths next to it *)

\* the root spelled with a trailing separator
pRs  == Root \o <<"/">>
\* a path that starts with the characters of the root without being under it
pSib == Root \o <<"x">>
\* a file whose name starts with the name of the directory a
pAG  == Root \o <<"/", "a", "*">>

StoreKeys == {pathToKey(Tool, p) : p \in {pA, pAX, pAY, pB, pAG, pEX, pGX}}

StorePaths == {Root, pRs, pA, pAs, pAX, pB, pG, pE, pSib, pOut}

InitStore ==
    /\ redis \in Stores(StoreKeys, Texts, MaxStoreKeys)
    /\ call = Idle
    /\ lastOp = NoOp
    /\ prev = redis
    /\ calls = <<>>
    /\ store = <<>>

NextStore ==
    \/ /\ lastOp.op = "none"
       /\ \E p \in StorePaths : View(Tool, p, <<>>)
    \/ /\ lastOp.op = "none"
       /\ \E p \in StorePaths : Delete(Tool, p)
    \/ /\ lastOp.op = "none"
       /\ \E p \in StorePaths, t \in Texts : Create(Tool, p, t)
    \/ /\ lastOp.op = "none"
       /\ ClearAll(Tool)
    \/ /\ lastOp.op = "none"
       /\ GetAllPaths(Tool)

SpecStore == InitStore /\ [][NextStore]_vars
----------------------------------------------------------------------------
(* The tenant specification: instances with distinct agentContext on one
   store, one command issued through one of them *)

Agents == {<<"a">>, <<"b">>, <<"*">>}

\* new RedisMemoryTool(redis, { agentContext })
ToolFor(agentContext) ==
    constructor([DefaultConfig EXCEPT !.agentContext = agentContext])

TenantKeys == {pathToKey(ToolFor(g), p) : g \in Agents, p \in {pA, pAX}}

InitTenant ==
    /\ redis \in Stores(TenantKeys, Texts, MaxStoreKeys)
    /\ call = Idle
    /\ lastOp = NoOp
    /\ prev = redis
    /\ calls = <<>>
    /\ store = <<>>

NextTenant ==
    \/ /\ lastOp.op = "none"
       /\ \E g \in Agents, p \in {Root, pA} : View(ToolFor(g), p, <<>>)
    \/ /\ lastOp.op = "none"
       /\ \E g \in Agents, p \in {pA, pAX}, t \in Texts : Create(ToolFor(g), p, t)
    \/ /\ lastOp.op = "none"
       /\ \E g \in Agents : StrReplace(ToolFor(g), pA, <<"a">>, <<"b">>)
    \/ /\ lastOp.op = "none"
       /\ \E g \in Agents : Insert(ToolFor(g), pA, 0, <<"b">>)
    \/ /\ lastOp.op = "none"
       /\ \E g \in Agents, p \in {pA, pG} : Delete(ToolFor(g), p)
    \/ /\ lastOp.op = "none"
       /\ \E g \in Agents, o \in {pA, pG} : RenameStart(ToolFor(g), o, pB)
    \/ RenameFileSet(lastOp.self)
    \/ RenameFileDel
    \/ RenameMoveSet(lastOp.self)
    \/ RenameMoveDel
    \/ Crash
    \/ /\ lastOp.op = "none"
       /\ \E g \in Agents : ClearAll(ToolFor(g))
    \/ /\ lastOp.op = "none"
       /\ \E g \in Agents : GetAllPaths(ToolFor(g))

SpecTenant == InitTenant /\ [][NextTenant]_vars

----------------------------------------------------------------------------
(* The expiry specification: sequences of commands through an instance with
   a ttl, from the empty store, while the clock of the server runs *)

\* new RedisMemoryTool(redis, { ttl })
ToolTtl == constructor([DefaultConfig EXCEPT !.ttl = TtlSeconds])

\* one second passes on the server: every expiry comes one second closer
\* and the keys whose expiry is reached are gone
Tick ==
    /\ call.pc = "idle"
    /\ \E k \in DOMAIN redis : redis[k].ttl # NoExpiry
    /\ redis' = [k \in {j \in DOMAIN redis : redis[j].ttl # 1} |->
                    IF redis[k].ttl = NoExpiry THEN redis[k]
                    ELSE [redis[k] EXCEPT !.ttl = @ - 1]]
    /\ lastOp' = Op(ToolTtl, "tick", <<>>, <<>>, <<>>, <<>>, 0, <<>>, "ok", NoOut)
    /\ prev' = redis
    /\ UNCHANGED call
    /\ UNCHANGED <<calls, store>>

InitTtl ==
    /\ redis = <<>>
    /\ call = Idle
    /\ lastOp = NoOp
    /\ prev = <<>>
    /\ calls = <<>>
    /\ store = <<>>

NextTtl ==
    \/ \E p \in {Root, pA, pAX} :
          Create(ToolTtl, p, <<"a">>) /\ Cardinality(DOMAIN redis') <= MaxFiles
    \/ \E p \in {Root, pA, pAX} : View(ToolTtl, p, <<>>)
    \/ \E o \in Texts : StrReplace(ToolTtl, pA, o, <<"a">>)
    \/ Insert(ToolTtl, pA, 0, <<"b">>) /\ ContentBound(redis')
    \/ Delete(ToolTtl, pA)
    \/ \E o \in {pA, pAX} : RenameStart(ToolTtl, o, pB)
    \/ RenameFileSet(ToolTtl)
    \/ RenameFileDel
    \/ RenameMoveSet(ToolTtl)
    \/ RenameMoveDel
    \/ Crash
    \/ GetAllPaths(ToolTtl)
    \/ Tick

SpecTtl == InitTtl /\ [][NextTtl]_vars

----------------------------------------------------------------------------
(* The utility specification: clearAll or getAllPaths on every store that
   creates through the instance reach, the keys of the root path itself
   and of a path next to the root included *)

UtilityKeys == {pathToKey(Tool, p) : p \in {Root, pSib, pA, pAX, pB}}

InitUtility ==
    /\ redis \in Stores(UtilityKeys, Texts, MaxStoreKeys)
    /\ call = Idle
    /\ lastOp = NoOp
    /\ prev = redis
    /\ calls = <<>>
    /\ store = <<>>

NextUtility ==
    \/ /\ lastOp.op = "none"
       /\ ClearAll(Tool)
    \/ /\ lastOp.op = "none"
       /\ GetAllPaths(Tool)

SpecUtility == InitUtility /\ [][NextUtility]_vars

----------------------------------------------------------------------------
(* RedisMemoryStore (src/unnamed/part_003): entries by id on a connection
   that the caller injects or that the instance constructs from options *)

DefaultStorePrefix ==
    <<"a", "n", "t", "h", "r", "o", "p", "i", "c", ":", "m", "e", "m", "o", "r", "y", ":">>

\* typeof redis.get === "function": a client has the method, connection
\* options do not
isRedisInstance(r) == r.hasGet

\* the constructor: the fields of the instance; redis names the connection
\* it holds, the caller's ("injected") or a new one ("constructed")
RedisMemoryStore(options) ==
    [keyPrefix      |-> IF options.hasKeyPrefix THEN options.keyPrefix
                        ELSE DefaultStorePrefix,
     defaultTTL     |-> options.defaultTTL,
     redis          |-> IF isRedisInstance(options.redis) THEN "injected"
                        ELSE "constructed",
     ownsConnection |-> ~isRedisInstance(options.redis)]

\* the connections after the constructor: the caller's when one was passed,
\* the one new IORedis(options.redis) opens otherwise
ConnectionsOf(options) ==
    IF isRedisInstance(options.redis)
    THEN [injected |-> "open", constructed |-> "none"]
    ELSE [injected |-> "none", constructed |-> "open"]

getKey(self, id) == self.keyPrefix \o id

\* JSON.stringify(entry) and JSON.parse(value), on the members of an entry
\* set without metadata
stringify(entry) == <<entry.id, entry.content, entry.createdAt, entry.updatedAt>>
parse(value) ==
    [id |-> value[1], content |-> value[2], createdAt |-> value[3], updatedAt |-> value[4]]

\* get(id): the entry, or null
store_get(self, db, id) ==
    LET value == get(db, getKey(self, id))
    IN  IF value.isNull THEN Null ELSE Some(parse(value.value))

\* an absent ttl argument, and a given one
NoTtl == [defined |-> FALSE, value |-> 0]
SomeTtl(seconds) == [defined |-> TRUE, value |-> seconds]

\* set(id, content, undefined, ttl) at the time now: [db, out]
store_set(self, db, id, content, ttl, now) ==
    LET existing     == store_get(self, db, id)
        entry        == [id        |-> id,
                         content   |-> content,
                         createdAt |-> IF existing.isNull THEN now
                                       ELSE existing.value.createdAt,
                         updatedAt |-> now]
        effectiveTTL == IF ttl.defined THEN ttl.value ELSE self.defaultTTL
    IN  [db  |-> IF effectiveTTL # 0
                 THEN setex(db, getKey(self, id), effectiveTTL, stringify(entry))
                 ELSE set(db, getKey(self, id), stringify(entry)),
         out |-> entry]

\* delete(id): [db, out]
store_delete(self, db, id) ==
    [db |-> del(db, {getKey(self, id)}), out |-> getKey(self, id) \in DOMAIN db]

\* has(id)
store_has(self, db, id) == exists(db, getKey(self, id))

\* list(): the ids of the matching keys, in the order of the KEYS reply
store_list(self, db) ==
    {sliceFrom(k, Len(self.keyPrefix)) : k \in keys(db, self.keyPrefix \o <<"*">>)}

\* clear(): [db, out]
store_clear(self, db) ==
    LET matching == keys(db, self.keyPrefix \o <<"*">>)
    IN  [db  |-> IF matching = {} THEN db ELSE del(db, matching),
         out |-> Cardinality(matching)]

\* close that quits whatever connection it holds
store_close_always(self, conns) == [conns EXCEPT ![self.redis] = "closed"]

\* close(): the connections after the call
store_close(self, conns) ==
    IF self.ownsConnection THEN [conns EXCEPT ![self.redis] = "closed"] ELSE conns

\* the connection the instance holds is open; a command on a closed
\* connection is rejected by the client
Connected == store.conns[store.self.redis] = "open"

\* a method of the store is called: its result on an open connection, a
\* rejection otherwise
StoreCall(op, id, text, db, out) ==
    /\ redis' = IF Connected THEN db ELSE redis
    /\ lastOp' = Op(store.self, op, id, <<>>, text, <<>>, 0, <<>>,
                    IF Connected THEN "ok" ELSE "ConnectionClosed",
                    IF Connected THEN out ELSE NoOut)
    /\ prev' = redis
    /\ UNCHANGED <<call, calls, store>>

StoreSet(id, content, ttl, now) ==
    \E r \in {store_set(store.self, redis, id, content, ttl, now)} :
        StoreCall("set", id, content, r.db, [kind |-> "entry", text |-> r.out])

StoreGet(id) ==
    \E r \in {store_get(store.self, redis, id)} :
        StoreCall("get", id, <<>>, redis, [kind |-> "entry", text |-> r])

StoreDelete(id) ==
    \E r \in {store_delete(store.self, redis, id)} :
        StoreCall("delete", id, <<>>, r.db, [kind |-> "boolean", text |-> r.out])

StoreHas(id) ==
    \E r \in {store_has(store.self, redis, id)} :
        StoreCall("has", id, <<>>, redis, [kind |-> "boolean", text |-> r])

StoreList ==
    \E r \in {store_list(store.self, redis)} :
        StoreCall("list", <<>>, <<>>, redis, [kind |-> "ids", text |-> r])

StoreClear ==
    \E r \in {store_clear(store.self, redis)} :
        StoreCall("clear", <<>>, <<>>, r.db, [kind |-> "number", text |-> r.out])

\* close(): quit is sent on an owned connection, and is rejected when that
\* connection is closed already
StoreClose ==
    /\ store' = [store EXCEPT !.conns = IF Connected THEN store_close(store.self, @) ELSE @]
    /\ lastOp' = Op(store.self, "close", <<>>, <<>>, <<>>, <<>>, 0, <<>>,
                    IF Connected \/ ~store.self.ownsConnection THEN "ok"
                    ELSE "ConnectionClosed",
                    NoOut)
    /\ prev' = redis
    /\ UNCHANGED <<redis, call, calls>>

\* an injected client, and connection options
InjectedClient == [hasGet |-> TRUE]
ConnectionOptions == [hasGet |-> FALSE]

StoreOptions ==
    [redis        : {InjectedClient, ConnectionOptions},
     hasKeyPrefix : BOOLEAN,
     keyPrefix    : {<<"p">>},
     defaultTTL   : {0, TtlSeconds}]

Ids == {<<"a">>, <<"b">>}

\* the values of new Date().toISOString() the model draws
Times == {<<"t", "1">>, <<"t", "2">>}

InitConn ==
    /\ redis = <<>>
    /\ call = Idle
    /\ lastOp = NoOp
    /\ prev = <<>>
    /\ calls = <<>>
    /\ \E o \in StoreOptions :
          store = [self |-> RedisMemoryStore(o), conns |-> ConnectionsOf(o),
                   owned |-> RedisMemoryStore(o).ownsConnection]

NextConn ==
    \/ \E id \in Ids, ttl \in {NoTtl, SomeTtl(TtlSeconds)}, now \in Times :
          StoreSet(id, <<"a">>, ttl, now)
    \/ \E id \in Ids : StoreGet(id)
    \/ \E id \in Ids : StoreDelete(id)
    \/ \E id \in Ids : StoreHas(id)
    \/ StoreList
    \/ StoreClear
    \/ StoreClose

SpecConn == InitConn /\ [][NextConn]_vars

----------------------------------------------------------------------------
(* The concurrency specification: two callers, one command each, whose
   store steps interleave. A command reads the store (its awaits up to its
   first write, taken together), then makes its writes one await at a time
   on the store as it is by then. *)

Callers == {"c1", "c2"}

\* a caller that has not called yet
NotCalled ==
    [pc |-> "idle", op |-> "none", path |-> <<>>, path2 |-> <<>>, text |-> <<>>,
     text2 |-> <<>>, num |-> 0, status |-> "none", seen |-> Null,
     key |-> <<>>, value |-> <<>>, dels |-> {}, wrote |-> Null,
     existed |-> FALSE, order |-> 0, loc |-> Idle]

\* the rank of the next store write among the writes of all callers
NextOrder ==
    1 + (CHOOSE n \in {calls[c].order : c \in Callers} :
            \A c \in Callers : calls[c].order <= n)

\* await this.setWithTtl(key, newContent) of create, str_replace and insert:
\* the value computed from what the call read is written on the store as it
\* is now
writeBack_checked(self, db, key, value, seen) ==
    IF get(db, key) = seen THEN setWithTtl(self, db, key, value) ELSE db

writeBack(self, db, key, value, seen) == setWithTtl(self, db, key, value)

\* a command that writes one key is called: r is what its handler makes of
\* the store as read; it throws, or goes on to its write
ConcCall(c, op, memoryPath, text, text2, num, r) ==
    /\ calls[c].pc = "idle"
    /\ calls' = [calls EXCEPT ![c] =
          [NotCalled EXCEPT
              !.op = op, !.path = memoryPath, !.text = text, !.text2 = text2,
              !.num = num,
              !.pc = IF r.status = "ok" THEN "write" ELSE "done",
              !.status = IF r.status = "ok" THEN "running" ELSE r.status,
              !.seen = IF ValidPath(memoryPath)
                       THEN get(redis, pathToKey(Tool, memoryPath)) ELSE Null,
              !.key = IF r.status = "ok" THEN pathToKey(Tool, memoryPath) ELSE <<>>,
              !.value = IF r.status = "ok"
                        THEN r.db[pathToKey(Tool, memoryPath)].value ELSE <<>>]]
    /\ UNCHANGED <<redis, call, lastOp, prev, store>>

ConcCreate(c, memoryPath, file_text) ==
    \E r \in {create(Tool, redis, memoryPath, file_text)} :
        ConcCall(c, "create", memoryPath, file_text, <<>>, 0, r)

ConcStrReplace(c, memoryPath, old_str, new_str) ==
    \E r \in {str_replace(Tool, redis, memoryPath, old_str, new_str)} :
        ConcCall(c, "str_replace", memoryPath, old_str, new_str, 0, r)

ConcInsert(c, memoryPath, insert_line, insert_text) ==
    \E r \in {insert(Tool, redis, memoryPath, insert_line, insert_text)} :
        ConcCall(c, "insert", memoryPath, insert_text, <<>>, insert_line, r)

\* the write of create, str_replace or insert, and the return
ConcWrite(c) ==
    /\ calls[c].pc = "write"
    /\ redis' = writeBack(Tool, redis, calls[c].key, calls[c].value, calls[c].seen)
    /\ calls' = [calls EXCEPT ![c] =
          [@ EXCEPT !.pc = "done", !.status = "ok",
                    !.wrote = Some(calls[c].value),
                    !.existed = calls[c].key \in DOMAIN redis,
                    !.order = NextOrder]]
    /\ UNCHANGED <<call, lastOp, prev, store>>

\* delete is called: it throws, or goes on to its del with the key, or the
\* scanned keys, it found
ConcDelete(c, memoryPath) ==
    /\ calls[c].pc = "idle"
    /\ \E r \in {delete(Tool, redis, memoryPath)} :
          calls' = [calls EXCEPT ![c] =
              [NotCalled EXCEPT
                  !.op = "delete", !.path = memoryPath,
                  !.pc = IF r.status = "ok" THEN "del" ELSE "done",
                  !.status = IF r.status = "ok" THEN "running" ELSE r.status,
                  !.dels = DOMAIN redis \ DOMAIN r.db]]
    /\ UNCHANGED <<redis, call, lastOp, prev, store>>

\* the del of delete, and the return
ConcDel(c) ==
    /\ calls[c].pc = "del"
    /\ redis' = del(redis, calls[c].dels)
    /\ calls' = [calls EXCEPT ![c] =
          [@ EXCEPT !.pc = "done", !.status = "ok", !.order = NextOrder]]
    /\ UNCHANGED <<call, lastOp, prev, store>>

\* rename is called: it throws, or it passed its checks and starts to move
ConcRenameStart(c, oldPath, newPath) ==
    /\ calls[c].pc = "idle"
    /\ \E r \in {renameStart(Tool, redis, oldPath, newPath)} :
          calls' = [calls EXCEPT ![c] =
              [NotCalled EXCEPT
                  !.op = "rename", !.path = oldPath, !.path2 = newPath,
                  !.pc = IF r.status = "running" THEN "rename" ELSE "done",
                  !.status = r.status,
                  !.loc = r.call]]
    /\ UNCHANGED <<redis, call, lastOp, prev, store>>

\* file move: await this.setWithTtl(newKey, content)
ConcRenameFileSet(c) ==
    /\ calls[c].pc = "rename" /\ calls[c].loc.pc = "fileSet"
    /\ redis' = setWithTtl(Tool, redis, calls[c].loc.newKey, calls[c].loc.content)
    /\ calls' = [calls EXCEPT ![c] =
          [@ EXCEPT !.loc = [@ EXCEPT !.pc = "fileDel"], !.order = NextOrder]]
    /\ UNCHANGED <<call, lastOp, prev, store>>

\* file move: await this.redis.del(oldKey), and the return
ConcRenameFileDel(c) ==
    /\ calls[c].pc = "rename" /\ calls[c].loc.pc = "fileDel"
    /\ redis' = del(redis, {calls[c].loc.oldKey})
    /\ calls' = [calls EXCEPT ![c] =
          [@ EXCEPT !.pc = "done", !.status = "ok", !.loc = Idle, !.order = NextOrder]]
    /\ UNCHANGED <<call, lastOp, prev, store>>

\* subtree move, one turn of the loop up to its write
ConcRenameMoveSet(c) ==
    /\ calls[c].pc = "rename" /\ calls[c].loc.pc = "move"
    /\ \E key \in calls[c].loc.remaining :
         LET fileContent == get(redis, key)
             rest        == calls[c].loc.remaining \ {key}
         IN  IF fileContent.isNull
             THEN /\ UNCHANGED redis
                  /\ calls' = [calls EXCEPT ![c] =
                        IF rest = {}
                        THEN [@ EXCEPT !.pc = "done", !.status = "ok", !.loc = Idle]
                        ELSE [@ EXCEPT !.loc = [@ EXCEPT !.remaining = rest]]]
             ELSE /\ redis' = setWithTtl(Tool, redis,
                                  destKey(calls[c].loc.oldKey, calls[c].loc.newKey, key),
                                  fileContent.value)
                  /\ calls' = [calls EXCEPT ![c] =
                        [@ EXCEPT !.loc = [@ EXCEPT !.pc = "moveDel", !.cur = key],
                                  !.order = NextOrder]]
    /\ UNCHANGED <<call, lastOp, prev, store>>

\* subtree move: await this.redis.del(key), then the next turn or the return
ConcRenameMoveDel(c) ==
    /\ calls[c].pc = "rename" /\ calls[c].loc.pc = "moveDel"
    /\ redis' = del(redis, {calls[c].loc.cur})
    /\ LET rest == calls[c].loc.remaining \ {calls[c].loc.cur}
       IN  calls' = [calls EXCEPT ![c] =
              IF rest = {}
              THEN [@ EXCEPT !.pc = "done", !.status = "ok", !.loc = Idle,
                             !.order = NextOrder]
              ELSE [@ EXCEPT !.loc = [@ EXCEPT !.pc = "move", !.remaining = rest,
                                               !.cur = <<>>],
                             !.order = NextOrder]]
    /\ UNCHANGED <<call, lastOp, prev, store>>

InitConc ==
    /\ redis \in Stores({pathToKey(Tool, pA), pathToKey(Tool, pAX)}, Texts, MaxFiles)
    /\ call = Idle
    /\ lastOp = NoOp
    /\ prev = redis
    /\ calls = [c \in Callers |-> NotCalled]
    /\ store = <<>>

NextConc ==
    \/ \E c \in Callers, t \in Texts : ConcCreate(c, pA, t)
    \/ \E c \in Callers, o \in Texts : ConcStrReplace(c, pA, o, <<"b", "b">>)
    \/ \E c \in Callers, i \in 0..2 : ConcInsert(c, pA, i, <<"b">>)
    \/ \E c \in Callers : ConcWrite(c)
    \/ \E c \in Callers : ConcDelete(c, pA)
    \/ \E c \in Callers : ConcDel(c)
    \/ \E c \in Callers : ConcRenameStart(c, pA, pB)
    \/ \E c \in Callers : ConcRenameFileSet(c)
    \/ \E c \in Callers : ConcRenameFileDel(c)
    \/ \E c \in Callers : ConcRenameMoveSet(c)
    \/ \E c \in Callers : ConcRenameMoveDel(c)

SpecConc == InitConc /\ [][NextConc]_vars

----------------------------------------------------------------------------
(* Vocabulary of the claims *)

K(memoryPath) == pathToKey(Tool, memoryPath)

\* what view makes of a path: File, Directory or Absent
Classify(db, memoryPath) ==
    LET r == view(Tool, db, memoryPath, <<>>)
    IN  IF r.status = "InvalidPath" THEN "Invalid"
        ELSE IF r.status = "NotFound" THEN "Absent"
        ELSE IF r.out.kind = "file" THEN "File"
        ELSE "Directory"

\* db and db2 hold the same keys with the same values, key apart
SameExcept(db, db2, key) ==
    /\ DOMAIN db \ {key} = DOMAIN db2 \ {key}
    /\ \A k \in DOMAIN db \ {key} : db[k] = db2[k]

\* the valid paths below the root that the namespace specification draws
LifecyclePaths == {pA, pAX}

----------------------------------------------------------------------------
(* C1 *)

\* C1: create never overwrites. A create on a valid path whose key exists
\* fails with the already-exists error and leaves every key as it was; a
\* create on a valid path whose key does not exist succeeds, stores exactly
\* file_text at that key and changes no other key.
C1_CreateNeverOverwrites ==
    (lastOp.op = "create" /\ ValidPath(lastOp.path)) =>
        IF K(lastOp.path) \in DOMAIN prev
        THEN lastOp.status = "AlreadyExists" /\ redis = prev
        ELSE /\ lastOp.status = "ok"
             /\ K(lastOp.path) \in DOMAIN redis
             /\ redis[K(lastOp.path)].value = lastOp.text
             /\ SameExcept(redis, prev, K(lastOp.path))

\* a create of another text on an existing file, beside another file, failed
C1_Witness ==
    /\ lastOp.op = "create"
    /\ lastOp.status = "AlreadyExists"
    /\ prev[K(lastOp.path)].value # lastOp.text
    /\ Cardinality(DOMAIN prev) >= 2

----------------------------------------------------------------------------
(* C2 *)

----------------------------------------------------------------------------
(* C3, C4, C5: rename *)

\* the keys below key: key, a separator, and more
Descendants(db, key) == {k \in DOMAIN db : startsWith(k, key \o <<"/">>)}

RenameOf(op) == op.op = "rename" /\ ValidPath(op.path) /\ ValidPath(op.path2)

\* the value db held at key is held by db2 at key2
HeldAt(db, key, db2, key2) == key2 \in DOMAIN db2 /\ db2[key2].value = db[key].value

\* C3 as claimed: a rename of a directory, one of whose descendants has its
\* mapped destination key taken, fails with the conflict error and leaves
\* every key as it was.
C3_Original ==
    (/\ RenameOf(lastOp)
     /\ K(lastOp.path) \notin DOMAIN prev
     /\ \E k \in Descendants(prev, K(lastOp.path)) :
           destKey(K(lastOp.path), K(lastOp.path2), k) \in DOMAIN prev)
    => (lastOp.status = "Conflict" /\ redis = prev)

\* C4 as claimed: from the first write of a rename to its return, and after a
\* crash between two of its writes, the value of every moved entry (the
\* source file, or every descendant of the source directory) is held at its
\* source key or at its mapped destination key.
C4_Original ==
    (RenameOf(lastOp) /\ lastOp.status \in {"running", "ok", "crashed"}) =>
        \A k \in (IF K(lastOp.path) \in DOMAIN prev
                  THEN {K(lastOp.path)}
                  ELSE Descendants(prev, K(lastOp.path))) :
            \/ HeldAt(prev, k, redis, k)
            \/ HeldAt(prev, k, redis, destKey(K(lastOp.path), K(lastOp.path2), k))

\* C5 as claimed: a rename of a file fails with the conflict error and
\* changes nothing when the destination key exists, and otherwise returns
\* with the value at the destination key, no key at the source and no other
\* key changed; a rename of a path that is neither a file nor a directory
\* fails with not-found and changes nothing.
C5_Original ==
    (RenameOf(lastOp) /\ call.pc = "idle" /\ lastOp.status # "crashed") =>
        IF K(lastOp.path) \in DOMAIN prev
        THEN IF K(lastOp.path2) \in DOMAIN prev
             THEN lastOp.status = "Conflict" /\ redis = prev
             ELSE /\ lastOp.status = "ok"
                  /\ HeldAt(prev, K(lastOp.path), redis, K(lastOp.path2))
                  /\ K(lastOp.path) \notin DOMAIN redis
                  /\ \A k \in (DOMAIN prev \cup DOMAIN redis)
                                 \ {K(lastOp.path), K(lastOp.path2)} :
                        k \in DOMAIN prev /\ k \in DOMAIN redis /\ redis[k] = prev[k]
        ELSE Descendants(prev, K(lastOp.path)) = {} =>
                (lastOp.status = "NotFound" /\ redis = prev)

----------------------------------------------------------------------------
(* C6, C7: str_replace *)

\* the number of occurrences of needle in s, counted left to right without
\* overlap; the empty string occurs at every position of s, its end included
RECURSIVE OccurrencesFrom(_, _, _)
OccurrencesFrom(s, needle, from) ==
    IF from + Len(needle) > Len(s) THEN 0
    ELSE IF SubSeq(s, from + 1, from + Len(needle)) = needle
    THEN 1 + OccurrencesFrom(s, needle, from + (IF needle = <<>> THEN 1 ELSE Len(needle)))
    ELSE OccurrencesFrom(s, needle, from + 1)

Occurrences(s, needle) == OccurrencesFrom(s, needle, 0)

\* C6 as claimed: str_replace fails with not-found on an absent file, with
\* the no-match error when old_str occurs 0 times, with the ambiguous-match
\* error when it occurs more than once, each time leaving the store as it
\* was, and succeeds only when old_str occurs exactly once.
C6_Original ==
    (lastOp.op = "str_replace" /\ ValidPath(lastOp.path)) =>
        IF K(lastOp.path) \notin DOMAIN prev
        THEN lastOp.status = "NotFound" /\ redis = prev
        ELSE LET n == Occurrences(prev[K(lastOp.path)].value, lastOp.text)
             IN  /\ n = 0 => (lastOp.status = "NoMatch" /\ redis = prev)
                 /\ n > 1 => (lastOp.status = "Ambiguous" /\ redis = prev)
                 /\ lastOp.status = "ok" => n = 1

\* old_str occurs in s at the 0-based index i
OccursAt(s, needle, i) ==
    i + Len(needle) <= Len(s) /\ SubSeq(s, i + 1, i + Len(needle)) = needle

\* C7 as claimed: when the content is X + old_str + Y (X ending where
\* old_str first occurs) and old_str occurs once in it, a successful
\* str_replace leaves exactly X + new_str + Y.
C7_Original ==
    (/\ lastOp.op = "str_replace"
     /\ lastOp.status = "ok"
     /\ Occurrences(prev[K(lastOp.path)].value, lastOp.text) = 1)
    => LET content == prev[K(lastOp.path)].value
           i == CHOOSE i \in 0..Len(content) :
                   /\ OccursAt(content, lastOp.text, i)
                   /\ \A j \in 0..(i - 1) : ~OccursAt(content, lastOp.text, j)
           X == SubSeq(content, 1, i)
           Y == sliceFrom(content, i + Len(lastOp.text))
       IN  redis[K(lastOp.path)].value = X \o lastOp.text2 \o Y

----------------------------------------------------------------------------
(* C8, C9: insert *)

\* the number of lines of a text: one more than its newlines
RECURSIVE Newlines(_)
Newlines(s) ==
    IF s = <<>> THEN 0 ELSE (IF Head(s) = "\n" THEN 1 ELSE 0) + Newlines(Tail(s))

LineCount(s) == 1 + Newlines(s)

\* C8: insert on an absent file fails with not-found; on a file of n lines
\* it fails with the invalid-range error exactly when insert_line < 0 or
\* insert_line > n; a failure leaves the store as it was; every insert_line
\* from 0 to n is accepted.
C8_InsertBounds ==
    (lastOp.op = "insert" /\ ValidPath(lastOp.path)) =>
        IF K(lastOp.path) \notin DOMAIN prev
        THEN lastOp.status = "NotFound" /\ redis = prev
        ELSE LET n == LineCount(prev[K(lastOp.path)].value)
             IN  /\ lastOp.status = "InvalidRange" <=> (lastOp.num < 0 \/ lastOp.num > n)
                 /\ lastOp.status = "ok" <=> (0 <= lastOp.num /\ lastOp.num <= n)
                 /\ lastOp.status # "ok" => redis = prev

\* an insert at the line count (an append) of a file of several lines
\* was accepted
C8_Witness ==
    /\ lastOp.op = "insert"
    /\ lastOp.status = "ok"
    /\ lastOp.num = LineCount(prev[K(lastOp.path)].value)
    /\ lastOp.num >= 2

\* C9: after a successful insert at i into the lines L[0..n), the lines of
\* the file are L[0..i), the lines of insert_text less one trailing newline,
\* and L[i..n); an insert at 0 of a one-line text into a file of 3 lines
\* gives 4 lines, the text first and the 3 lines after it in their order.
C9_InsertResult ==
    (lastOp.op = "insert" /\ lastOp.status = "ok") =>
        LET L        == SplitChar(prev[K(lastOp.path)].value, "\n")
            after    == SplitChar(redis[K(lastOp.path)].value, "\n")
            stripped == IF lastOp.text # <<>> /\ lastOp.text[Len(lastOp.text)] = "\n"
                        THEN SubSeq(lastOp.text, 1, Len(lastOp.text) - 1)
                        ELSE lastOp.text
        IN  /\ after = SubSeq(L, 1, lastOp.num) \o SplitChar(stripped, "\n")
                         \o SubSeq(L, lastOp.num + 1, Len(L))
            /\ (Len(L) = 3 /\ lastOp.num = 0 /\ Newlines(stripped) = 0) =>
                  (Len(after) = 4 /\ after[1] = stripped
                   /\ after[2] = L[1] /\ after[3] = L[2] /\ after[4] = L[3])
            /\ SameExcept(redis, prev, K(lastOp.path))

\* a one-line text ending in a newline was inserted at 0 into 3 lines
C9_Witness ==
    /\ lastOp.op = "insert"
    /\ lastOp.status = "ok"
    /\ lastOp.num = 0
    /\ lastOp.text = <<"a", "\n">>
    /\ LineCount(prev[K(lastOp.path)].value) = 3
    /\ LineCount(redis[K(lastOp.path)].value) = 4

----------------------------------------------------------------------------
(* C10 *)

\* C10 as claimed: right after a successful create(p, text), view(p) without
\* a range returns the lines of text in order, each after its 1-based number,
\* as many lines as text has.
C10_Original ==
    (lastOp.op = "create" /\ lastOp.status = "ok") =>
        LET v     == view(Tool, redis, lastOp.path, <<>>)
            lines == SplitChar(lastOp.text, "\n")
            shown == SplitChar(v.out.text, "\n")
        IN  /\ v.status = "ok"
            /\ v.out.kind = "file"
            /\ Len(shown) = LineCount(lastOp.text)
            /\ \A i \in 1..Len(shown) :
                  shown[i] = padStart(IntToStr(i), 4) \o <<":", " ">> \o lines[i]

----------------------------------------------------------------------------
(* C11 .. C15, C18 .. C20: the namespace over every store of a small tree *)

\* the path is the root or a path under it: the root followed by a separator
InNamespace(memoryPath) ==
    memoryPath = Root \/ startsWith(memoryPath, Root \o <<"/">>)

\* the path denotes the root, in any spelling
DenotesRoot(memoryPath) == InNamespace(memoryPath) /\ Normalize(memoryPath) = Root

\* C11 as claimed: a delete whose path denotes the root, in any spelling that
\* normalizes to it, fails with the protected-path error and removes no key.
C11_Original ==
    (lastOp.op = "delete" /\ DenotesRoot(lastOp.path))
    => (lastOp.status = "Protected" /\ redis = prev)

\* C12 as claimed: a delete of a path p below the root removes the key at p
\* and only that key when it exists; otherwise removes every descendant key
\* of p, and only those, when p has any; otherwise fails with not-found and
\* removes nothing.
C12_Original ==
    (lastOp.op = "delete" /\ InNamespace(lastOp.path) /\ ~DenotesRoot(lastOp.path))
    => IF K(lastOp.path) \in DOMAIN prev
       THEN lastOp.status = "ok" /\ redis = del(prev, {K(lastOp.path)})
       ELSE IF Descendants(prev, K(lastOp.path)) # {}
       THEN lastOp.status = "ok" /\ redis = del(prev, Descendants(prev, K(lastOp.path)))
       ELSE lastOp.status = "NotFound" /\ redis = prev

\* s ends with t
endsWith(s, t) == Len(s) >= Len(t) /\ sliceFrom(s, Len(s) - Len(t)) = t

\* C13 as claimed: in a namespace with no entries, a view whose path denotes
\* the root, in any spelling, returns a directory result that carries the
\* empty indicator, and never fails with not-found.
C13_Original ==
    (lastOp.op = "view" /\ DenotesRoot(lastOp.path) /\ DOMAIN prev = {})
    => (/\ lastOp.status = "ok"
        /\ lastOp.out.kind = "dir"
        /\ endsWith(lastOp.out.text, EmptyMark))

\* C14 as claimed: a view, create or delete of a path that is neither the
\* root nor a path under the root fails with the invalid-path error and
\* leaves the store as it was, and every stored key decodes to a path of the
\* root's subtree.
C14_Original ==
    /\ (lastOp.op \in {"view", "create", "delete"} /\ ~InNamespace(lastOp.path))
       => (lastOp.status = "InvalidPath" /\ redis = prev)
    /\ \A k \in DOMAIN redis : InNamespace(keyToPath(Tool, k))

\* C15 as claimed: after any sequence of commands from the empty store, no
\* key has a key strictly below it.
C15_Original ==
    call.pc = "idle" => \A k \in DOMAIN redis : Descendants(redis, k) = {}

\* C18 as claimed: a view of a path p below the root returns file content
\* iff a key exists at p; otherwise a directory listing iff some key is
\* strictly below p; otherwise it fails with not-found.
C18_Original ==
    (lastOp.op = "view" /\ InNamespace(lastOp.path) /\ ~DenotesRoot(lastOp.path))
    => IF K(lastOp.path) \in DOMAIN prev
       THEN lastOp.status = "ok" /\ lastOp.out.kind = "file"
       ELSE IF Descendants(prev, K(lastOp.path)) # {}
       THEN lastOp.status = "ok" /\ lastOp.out.kind = "dir"
       ELSE lastOp.status = "NotFound"

\* the names of the immediate children of the directory at key: the first
\* segment below it of every descendant key
ChildNames(db, key) ==
    {SplitChar(sliceFrom(k, Len(key) + 1), "/")[1] : k \in Descendants(db, key)}

\* the children as the claim lists them: sorted by name, each name bare when
\* a key exists at the child's path and followed by the separator otherwise
RECURSIVE ShownChildren(_, _, _)
ShownChildren(db, key, names) ==
    IF names = <<>> THEN <<>>
    ELSE <<IF key \o <<"/">> \o Head(names) \in DOMAIN db
           THEN Head(names)
           ELSE Head(names) \o <<"/">>>>
         \o ShownChildren(db, key, Tail(names))

\* C19 as claimed: the view of a directory d lists every immediate child of
\* d once, bare iff a key exists at the child's path and with the separator
\* suffix otherwise, the children sorted by name.
C19_Original ==
    (/\ lastOp.op = "view"
     /\ InNamespace(lastOp.path)
     /\ K(lastOp.path) \notin DOMAIN prev
     /\ Descendants(prev, K(lastOp.path)) # {})
    => (/\ lastOp.status = "ok"
        /\ lastOp.out.kind = "dir"
        /\ lastOp.out.text =
              DirectoryHeader(lastOp.path)
              \o Join(Bullets(ShownChildren(prev, K(lastOp.path),
                                  SortSet(ChildNames(prev, K(lastOp.path))))),
                      <<"\n">>))

\* the single-step commands of the store specification, and what one of
\* them returns and leaves on a store
StoreCommands == [op : {"view", "create", "delete"}, path : StorePaths, text : Texts]

Run(c, db) ==
    IF c.op = "view"
    THEN view(Tool, db, c.path, <<>>)
    ELSE IF c.op = "create"
    THEN [status |-> create(Tool, db, c.path, c.text).status,
          db |-> create(Tool, db, c.path, c.text).db, out |-> NoOut]
    ELSE [status |-> delete(Tool, db, c.path).status,
          db |-> delete(Tool, db, c.path).db, out |-> NoOut]

\* C20 as claimed: for the command x just run and any command y on another
\* normalized path, x then y and y then x return the same two results and
\* leave the same store.
C20_Original ==
    (lastOp.op \in {"view", "create", "delete"} /\ InNamespace(lastOp.path))
    => \A y \in StoreCommands :
          (InNamespace(y.path) /\ Normalize(y.path) # Normalize(lastOp.path))
          => LET x      == [op |-> lastOp.op, path |-> lastOp.path, text |-> lastOp.text]
                 yAfter == Run(y, redis)
                 yFirst == Run(y, prev)
                 xAfter == Run(x, yFirst.db)
             IN  /\ xAfter.status = lastOp.status
                 /\ xAfter.out = lastOp.out
                 /\ yAfter.status = yFirst.status
                 /\ yAfter.out = yFirst.out
                 /\ xAfter.db = yAfter.db

----------------------------------------------------------------------------
(* C16: tenant isolation *)

\* the keys written through an instance: its prefix, then a path that
\* passed the check of pathToKey
Owned(self, db) ==
    {k \in DOMAIN db : startsWith(k, self.keyPrefix \o <<":">> \o Root)}

\* the store without the keys written through an instance
Without(db, self) == [k \in DOMAIN db \ Owned(self, db) |-> db[k]]

\* C16 as claimed: a command issued through one instance leaves every key
\* written through an instance with another agentContext as it was, and a
\* view or getAllPaths through it returns what it returns on the store
\* without those keys.
C16_Original ==
    lastOp.op # "none" =>
        \A g \in Agents :
            ToolFor(g) # lastOp.self =>
                /\ \A k \in Owned(ToolFor(g), prev) :
                      k \in DOMAIN redis /\ redis[k] = prev[k]
                /\ lastOp.op = "view" =>
                      lastOp.out = view(lastOp.self, Without(prev, ToolFor(g)),
                                        lastOp.path, <<>>).out
                /\ lastOp.op = "getAllPaths" =>
                      lastOp.out = getAllPaths(lastOp.self, Without(prev, ToolFor(g))).out

----------------------------------------------------------------------------
(* C17: sliding expiry *)

\* the expiry of the key of a path is the full ttl
Fresh(db, memoryPath) ==
    /\ pathToKey(ToolTtl, memoryPath) \in DOMAIN db
    /\ db[pathToKey(ToolTtl, memoryPath)].ttl = TtlSeconds

\* the keys a rename that returned has written: the destination key of a
\* file move, the mapped destination keys of a subtree move
Moved(op, db) ==
    IF pathToKey(ToolTtl, op.path) \in DOMAIN db
    THEN {pathToKey(ToolTtl, op.path2)}
    ELSE {destKey(pathToKey(ToolTtl, op.path), pathToKey(ToolTtl, op.path2), k) :
             k \in Descendants(db, pathToKey(ToolTtl, op.path))}

\* C17: with a ttl configured, the expiry of a file is the full ttl right
\* after a successful create, str_replace or insert of it, right after a view
\* that returns its content, and, for the destination keys, right after a
\* rename that returned; a view that lists a directory, getAllPaths and every
\* command that fails leave every key and every expiry as they were, and a
\* view of a file leaves the expiry of every other key as it was.
C17_SlidingTtl ==
    /\ (lastOp.op \in {"create", "str_replace", "insert"} /\ lastOp.status = "ok")
       => Fresh(redis, lastOp.path)
    /\ (lastOp.op = "view" /\ lastOp.status = "ok" /\ lastOp.out.kind = "file")
       => (/\ Fresh(redis, lastOp.path)
           /\ SameExcept(prev, redis, pathToKey(ToolTtl, lastOp.path)))
    /\ (lastOp.op = "rename" /\ lastOp.status = "ok")
       => \A k \in Moved(lastOp, prev) : k \in DOMAIN redis /\ redis[k].ttl = TtlSeconds
    /\ (lastOp.op = "view" /\ lastOp.out.kind # "file") => redis = prev
    /\ lastOp.op = "getAllPaths" => redis = prev
    /\ lastOp.status \notin {"ok", "running", "crashed"} => redis = prev

\* a view of a file whose expiry had come closer brought it back to the full
\* ttl
C17_Witness ==
    /\ lastOp.op = "view"
    /\ lastOp.status = "ok"
    /\ lastOp.out.kind = "file"
    /\ prev[pathToKey(ToolTtl, lastOp.path)].ttl < TtlSeconds
    /\ Fresh(redis, lastOp.path)

----------------------------------------------------------------------------
(* C25: a subtree rename that returns *)

\* the keys of db at or below neither of the two keys
Outside(db, oldKey, newKey) ==
    DOMAIN db \ (Descendants(db, oldKey) \cup Descendants(db, newKey)
                 \cup {oldKey, newKey})

\* C25 as claimed: a rename of a directory none of whose mapped destination
\* keys exists returns; the value of every former descendant key is then
\* held at its mapped destination key, a former descendant key remains only
\* if it is a destination key, the number of keys is what it was and every
\* key outside the two subtrees is as it was.
C25_Original ==
    (/\ RenameOf(lastOp)
     /\ call.pc = "idle"
     /\ lastOp.status # "crashed"
     /\ K(lastOp.path) \notin DOMAIN prev
     /\ Descendants(prev, K(lastOp.path)) # {}
     /\ \A k \in Descendants(prev, K(lastOp.path)) :
           destKey(K(lastOp.path), K(lastOp.path2), k) \notin DOMAIN prev)
    => LET oldKey == K(lastOp.path)
           newKey == K(lastOp.path2)
           moved  == Descendants(prev, oldKey)
           dests  == {destKey(oldKey, newKey, k) : k \in moved}
       IN  /\ lastOp.status = "ok"
           /\ \A k \in moved : HeldAt(prev, k, redis, destKey(oldKey, newKey, k))
           /\ \A k \in moved : k \in DOMAIN redis => k \in dests
           /\ Cardinality(DOMAIN redis) = Cardinality(DOMAIN prev)
           /\ Outside(redis, oldKey, newKey) = Outside(prev, oldKey, newKey)
           /\ \A k \in Outside(prev, oldKey, newKey) : redis[k] = prev[k]

----------------------------------------------------------------------------
(* C26: the frame of delete *)

\* C26 as claimed: a delete that returns removes no key other than the key
\* of its path and the keys strictly below it; every other key keeps its
\* value and its expiry.
C26_Original ==
    (lastOp.op = "delete" /\ lastOp.status = "ok")
    => \A k \in DOMAIN prev \ ({K(lastOp.path)} \cup Descendants(prev, K(lastOp.path))) :
          k \in DOMAIN redis /\ redis[k] = prev[k]

----------------------------------------------------------------------------
(* C27: view with a range *)

\* the lines the claim selects: those of index i with lo <= i <= hi, each
\* labelled with i
RECURSIVE RangeLines(_, _, _)
RangeLines(lines, lo, hi) ==
    IF lo > hi \/ lo > Len(lines) THEN <<>>
    ELSE <<padStart(IntToStr(lo), 4) \o <<":", " ">> \o lines[lo]>>
         \o RangeLines(lines, lo + 1, hi)

\* C27 as claimed: a view of a file of n lines with the range [s, e] returns
\* the lines of index i with max(1, s) <= i <= e, e = -1 standing for n, in
\* order and each labelled with i, an empty result when no line is selected,
\* and leaves the stored value as it was.
C27_Original ==
    (lastOp.op = "view" /\ lastOp.range # <<>> /\ K(lastOp.path) \in DOMAIN prev)
    => LET lines == SplitChar(prev[K(lastOp.path)].value, "\n")
           lo    == IF lastOp.range[1] > 1 THEN lastOp.range[1] ELSE 1
           hi    == IF lastOp.range[2] = -1 THEN Len(lines) ELSE lastOp.range[2]
       IN  /\ lastOp.status = "ok"
           /\ lastOp.out.text = Join(RangeLines(lines, lo, hi), <<"\n">>)
           /\ redis[K(lastOp.path)].value = prev[K(lastOp.path)].value

----------------------------------------------------------------------------
(* C28: spellings of a path *)

\* C28 as claimed: normalization is idempotent, and a view, create or delete
\* returns the same kind of result and leaves the same store whichever
\* spelling of its path it is given.
C28_Original ==
    /\ \A p \in StorePaths :
          ValidPath(p) => Normalize(Normalize(p)) = Normalize(p)
    /\ (lastOp.op \in {"view", "create", "delete"} /\ ValidPath(lastOp.path))
       => \A q \in StorePaths :
             (ValidPath(q) /\ Normalize(q) = Normalize(lastOp.path))
             => LET r == Run([op |-> lastOp.op, path |-> q, text |-> lastOp.text], prev)
                IN  /\ pathToKey(Tool, q) = pathToKey(Tool, lastOp.path)
                    /\ r.status = lastOp.status
                    /\ r.out.kind = lastOp.out.kind
                    /\ r.db = redis

----------------------------------------------------------------------------
(* C22, C23: clearAll and getAllPaths *)

\* the spellings under which the claims look a stored entry up
UtilityPaths == {pRs, pSib, pA, pAX, pB}

\* C22 as claimed: after clearAll no key written through the instance
\* remains, getAllPaths returns the empty list and every path is Absent;
\* on an empty namespace the store is left as it was.
C22_Original ==
    lastOp.op = "clearAll"
    => (/\ Owned(Tool, redis) = {}
        /\ getAllPaths(Tool, redis).out.text = <<>>
        /\ \A p \in UtilityPaths : Classify(redis, p) = "Absent"
        /\ DOMAIN prev = {} => redis = prev)

\* C23 as claimed: getAllPaths returns, sorted and without duplicates, the
\* paths of the keys stored through the instance, and a path is listed iff
\* view returns file content for it.
C23_Original ==
    lastOp.op = "getAllPaths"
    => (/\ lastOp.out.text = SortSet({keyToPath(Tool, k) : k \in Owned(Tool, prev)})
        /\ \A p \in UtilityPaths :
              (Classify(prev, p) = "File")
              <=> (\E i \in 1..Len(lastOp.out.text) : lastOp.out.text[i] = Normalize(p)))

----------------------------------------------------------------------------
(* C24: ownership of the connection *)

\* C24: a connection injected by the caller is never closed by the store;
\* after close() the connection the store constructed is closed, and close()
\* closes nothing when the store constructed none; ownsConnection is what the
\* constructor set and holds iff the store constructed its connection.
C24_ConnectionOwnership ==
    /\ store.conns.injected # "closed"
    /\ lastOp.op = "close"
       => (store.conns.constructed = "closed" <=> store.self.ownsConnection)
    /\ store.self.ownsConnection = store.owned
    /\ store.self.ownsConnection <=> store.self.redis = "constructed"

\* close() was called on a store that holds an injected connection, which is
\* still open
C24_Witness ==
    /\ lastOp.op = "close"
    /\ store.self.redis = "injected"
    /\ ~store.self.ownsConnection
    /\ store.conns.injected = "open"

----------------------------------------------------------------------------
(* C21, C29, C30: concurrent callers *)

IsEdit(c) == calls[c].op \in {"str_replace", "insert"}

\* the store that holds what the call of c read at its key, and nothing else
SeenStore(c) ==
    IF calls[c].seen.isNull THEN <<>>
    ELSE pathToKey(Tool, calls[c].path) :>
            [value |-> calls[c].seen.value, ttl |-> NoExpiry]

\* what the edit of c returns and writes when it runs alone on what it read
AloneOn(c, db) ==
    IF calls[c].op = "str_replace"
    THEN str_replace(Tool, db, calls[c].path, calls[c].text, calls[c].text2)
    ELSE insert(Tool, db, calls[c].path, calls[c].num, calls[c].text)

\* the write of c is the latest store write
WroteLast(c) == \A d \in Callers \ {c} : calls[d].order < calls[c].order

\* C21: an edit never fails or waits because of a concurrent writer: it
\* throws only the errors of an edit that runs alone on the content it read,
\* and otherwise writes the content it computed from what it read and
\* reports success; the file then holds the content of the latest write.
C21_LostUpdate ==
    \A c \in Callers :
        (IsEdit(c) /\ calls[c].pc = "done")
        => /\ calls[c].status = AloneOn(c, SeenStore(c)).status
           /\ calls[c].status = "ok"
              => /\ calls[c].wrote =
                       Some(AloneOn(c, SeenStore(c)).db[pathToKey(Tool, calls[c].path)].value)
                 /\ WroteLast(c)
                    => get(redis, pathToKey(Tool, calls[c].path)) = calls[c].wrote

\* two edits of one file read the same content, both reported success, and
\* the file holds what the later one computed from the content it read: the
\* change of the earlier one is gone
C21_Witness ==
    \E c \in Callers, d \in Callers :
        /\ IsEdit(c) /\ IsEdit(d)
        /\ calls[c].status = "ok" /\ calls[d].status = "ok"
        /\ calls[c].order < calls[d].order
        /\ calls[c].seen = calls[d].seen
        /\ calls[c].wrote # calls[c].seen
        /\ get(redis, pathToKey(Tool, calls[d].path)) = calls[d].wrote
        /\ LET afterC == AloneOn(d, pathToKey(Tool, calls[c].path) :>
                                        [value |-> calls[c].wrote.value, ttl |-> NoExpiry])
           IN  \/ afterC.status # "ok"
               \/ Some(afterC.db[pathToKey(Tool, calls[d].path)].value) # calls[d].wrote

\* C29 as claimed: of two creates of one path at most one reports success,
\* and a create that reports success has not written over a stored value.
C29_Original ==
    /\ \A c \in Callers, d \in Callers :
          (/\ c # d
           /\ calls[c].op = "create" /\ calls[d].op = "create"
           /\ Normalize(calls[c].path) = Normalize(calls[d].path))
          => ~(calls[c].status = "ok" /\ calls[d].status = "ok")
    /\ \A c \in Callers :
          (calls[c].op = "create" /\ calls[c].status = "ok") => ~calls[c].existed

\* C30 as claimed: a str_replace or insert that writes finds an entry at
\* its key at the moment of the write.
C30_Original ==
    \A c \in Callers :
        (IsEdit(c) /\ calls[c].status = "ok") => calls[c].existed

----------------------------------------------------------------------------
(* C31: every key carries an expiry *)

\* the key carries an expiry of at most the configured ttl
Expiring(db, k) == db[k].ttl \in 1..TtlSeconds

\* C31: with a ttl configured, after any sequence of commands through the
\* instance, partial renames included, every key of the store carries an
\* expiry of at most the ttl, and a key that carried an expiry when the
\* command was issued and is still there carries one.
C31_EveryKeyExpires ==
    /\ \A k \in DOMAIN redis : Expiring(redis, k)
    /\ \A k \in DOMAIN prev \cap DOMAIN redis :
          Expiring(prev, k) => Expiring(redis, k)

\* a str_replace or insert rewrote a file whose expiry had come closer, and
\* the file and a second key both carry an expiry afterwards
C31_Witness ==
    /\ lastOp.op \in {"str_replace", "insert"}
    /\ lastOp.status = "ok"
    /\ pathToKey(ToolTtl, lastOp.path) \in DOMAIN prev
    /\ prev[pathToKey(ToolTtl, lastOp.path)].ttl < TtlSeconds
    /\ Cardinality(DOMAIN redis) = 2
    /\ \A k \in DOMAIN redis : Expiring(redis, k)

====
